---------------------------- MODULE Spec2Model ----------------------------
(***************************************************************************)
(* Kokkos::Experimental::Impl::MemPoolList                                 *)
(* (core/src/impl/Kokkos_MemoryPool_Inline.hpp): the per-size-class free   *)
(* lists, the push primitive insert_list, allocate with its chunk          *)
(* splitting, and deallocate.                                              *)
(*                                                                         *)
(* Addresses are integers counted in link-sized words.  Every access to    *)
(* the shared heads m_freelist[] and to a chunk's m_next field is one      *)
(* step of the thread that makes it.  KOKKOS_MEMPOOLLIST_PRINTERR is       *)
(* defined in the source, so every error is Kokkos::abort: the process     *)
(* stops, recorded in err.                                                 *)
(***************************************************************************)
EXTENDS Integers, Sequences, FiniteSets, Bags, TLC

(* ------------------------------ bounds -------------------------------- *)

\* number of threads calling into the pool
NumThreads == 2

\* largest chunk size (in words) of the size-class tables explored
MaxSize == 3

\* largest number of size classes of the tables explored
MaxClasses == 2

\* largest number of chunks of the largest class the arena is partitioned in
MaxChunks == 2

\* stands for the retry ceiling 100000 of allocate (line 201), scaled down
TryLimit == 2

\* number of completed calls remembered in hist
HistLen == 3

\* number of allocate and deallocate calls made in one run of several threads
MaxCalls == 4

\* number of allocate and deallocate calls made in one single-threaded run
SeqCalls == 3

(* ----------------------------- constants ------------------------------ *)

\* the null pointer
NULL == 0

\* KOKKOS_MEMPOOLLIST_LOCK: reinterpret_cast<Link*>( ~uintptr_t(0) )
LOCK == -1

\* base address of the backing arena
ArenaBase == 8

Threads == 1 .. NumThreads

VARIABLES
  m_chunk_size,  \* size-class table, 0-based, terminated by 0
  m_freelist,    \* head of each class's free list: NULL, LOCK or an address
  m_data,        \* base address of the arena
  m_data_size,   \* length of the arena
  mem,           \* the m_next field stored at an address, where one was written
  held,          \* bag of <<address, requested size>> held by callers
  err,           \* "none" or the message of the Kokkos::abort that stopped the process
  hist,          \* the last HistLen completed calls of a single-threaded run
  budget,        \* number of calls the callers still make in this run
  pc,            \* each thread's position
  op,            \* the call a thread is in: "none", "allocate", "deallocate"
  alloc_size,    \* argument alloc_size
  alloc_ptr,     \* argument alloc_ptr of deallocate
  l_exp,         \* allocate: minimal fitting class
  l,             \* allocate: class being scanned / taken from
  old_head,      \* local old_head of allocate or insert_list
  head_next,     \* allocate: local head_next
  p,             \* allocate: result pointer
  num_tries,     \* allocate: attempt counter
  empties,       \* allocate: the classes the scan under way has read as empty
  lp_head,       \* insert_list argument
  lp_tail,       \* insert_list argument
  list           \* insert_list argument

vars == <<m_chunk_size, m_freelist, m_data, m_data_size, mem, held, err, hist, budget,
          pc, op, alloc_size, alloc_ptr, l_exp, l, old_head, head_next, p, num_tries,
          empties, lp_head, lp_tail, list>>

(* ------------------------- size-class table --------------------------- *)

\* number of size classes: index of the terminating 0
NumLists == CHOOSE k \in DOMAIN m_chunk_size : m_chunk_size[k] = 0

\* size of the largest class
MaxChunkSize == m_chunk_size[NumLists - 1]

RECURSIVE FirstFit(_, _)
\* for ( ; m_chunk_size[i] > 0 && size > m_chunk_size[i]; ++i );
FirstFit(size, i) ==
  IF m_chunk_size[i] > 0 /\ size > m_chunk_size[i]
    THEN FirstFit(size, i + 1)
    ELSE i

\* the class index allocate and deallocate compute for a size
ClassIndex(size) == FirstFit(size, 0)

RECURSIVE FirstFitGE(_, _)
\* the scan with >= in place of >: a request of exactly a class's size is
\* sent to the class above
FirstFitGE(size, i) ==
  IF m_chunk_size[i] > 0 /\ size >= m_chunk_size[i]
    THEN FirstFitGE(size, i + 1)
    ELSE i

\* allocate's class lookup with the comparison off by one
AllocClassGE(size) == FirstFitGE(size, 0)

\* lines 134-135: allocate's minimal fitting class l_exp
AllocClass(size) == FirstFit(size, 0)

\* deallocate's class lookup with the comparison off by one
DeallocClassGE(size) == FirstFitGE(size, 0)

\* lines 286-287: the class deallocate puts a chunk of this size on
DeallocClass(size) == FirstFit(size, 0)

\* the chunk size a request is rounded up to
ClassSizeFor(size) == m_chunk_size[ClassIndex(size)]

(* ------------------------------ memory -------------------------------- *)

\* values a link field that the pool never wrote may hold
Garbage == {NULL, LOCK} \cup (m_data .. (m_data + m_data_size - 1))

\* the outcomes of reading the m_next field at address a
ReadLink(a) == IF a \in DOMAIN mem THEN {mem[a]} ELSE Garbage

\* mem after writing v to the m_next field at address a
WriteLink(m, a, v) == [x \in (DOMAIN m) \cup {a} |-> IF x = a THEN v ELSE m[x]]


(* --------------------------- construction ----------------------------- *)

\* a size-class table from the sequence of its sizes: 0-based, 0 terminated
MkTable(sizes) ==
  [i \in 0 .. Len(sizes) |-> IF i < Len(sizes) THEN sizes[i + 1] ELSE 0]

\* the strictly increasing tables of positive sizes within the bounds
Tables ==
  { sizes \in UNION { [1 .. n -> 1 .. MaxSize] : n \in 1 .. MaxClasses } :
      \A i \in 1 .. (Len(sizes) - 1) : sizes[i] < sizes[i + 1] }

\* the pool after construction: the arena is partitioned into k chunks of the
\* largest class, chained in address order on that class's free list
InitPool(sizes, k) ==
  LET n   == Len(sizes)
      big == sizes[n]
  IN  /\ m_chunk_size = MkTable(sizes)
      /\ m_data = ArenaBase
      /\ m_data_size = k * big
      /\ m_freelist = [i \in 0 .. (n - 1) |-> IF i = n - 1 THEN ArenaBase ELSE NULL]
      /\ mem = [a \in { ArenaBase + j * big : j \in 0 .. (k - 1) } |->
                  IF a + big < ArenaBase + k * big THEN a + big ELSE NULL]
      /\ held = EmptyBag
      /\ err = "none"
      /\ hist = << >>

\* no thread is inside a call; the threads of `on` may call
InitThreads(on) ==
  /\ pc = [t \in Threads |-> IF t \in on THEN "idle" ELSE "off"]
  /\ op = [t \in Threads |-> "none"]
  /\ alloc_size = [t \in Threads |-> 0]
  /\ alloc_ptr = [t \in Threads |-> NULL]
  /\ l_exp = [t \in Threads |-> 0]
  /\ l = [t \in Threads |-> 0]
  /\ old_head = [t \in Threads |-> NULL]
  /\ head_next = [t \in Threads |-> NULL]
  /\ p = [t \in Threads |-> NULL]
  /\ num_tries = [t \in Threads |-> 0]
  /\ empties = [t \in Threads |-> {}]
  /\ lp_head = [t \in Threads |-> NULL]
  /\ lp_tail = [t \in Threads |-> NULL]
  /\ list = [t \in Threads |-> 0]

Init ==
  /\ \E sizes \in Tables, k \in 1 .. MaxChunks : InitPool(sizes, k)
  /\ InitThreads(Threads)
  /\ budget = MaxCalls

\* the tables whose every class is at least twice the class below it
GeoTables ==
  { sizes \in Tables :
      \A i \in 1 .. (Len(sizes) - 1) : 2 * sizes[i] <= sizes[i + 1] }

GeoInit ==
  /\ \E sizes \in GeoTables, k \in 1 .. MaxChunks : InitPool(sizes, k)
  /\ InitThreads(Threads)
  /\ budget = MaxCalls

\* the size classes of the concrete scenario, in bytes
ScenarioSizes == <<64, 256, 1024>>

\* classes {64, 256, 1024}, an arena of four 1024-byte chunks, one caller that
\* makes one call more than the arena has 64-byte chunks
ScenarioInit ==
  /\ InitPool(ScenarioSizes, 4)
  /\ InitThreads({1})
  /\ budget = (4 * ScenarioSizes[3]) \div ScenarioSizes[1] + 1

\* one caller, or all of them
AnyInit ==
  /\ \E sizes \in Tables, k \in 1 .. MaxChunks : InitPool(sizes, k)
  /\ \/ InitThreads({1}) /\ budget = SeqCalls
     \/ InitThreads(Threads) /\ budget = MaxCalls

\* one caller only
SeqInit ==
  /\ \E sizes \in Tables, k \in 1 .. MaxChunks : InitPool(sizes, k)
  /\ InitThreads({1})
  /\ budget = SeqCalls

(* ------------------------------ helpers ------------------------------- *)

\* only thread 1 runs: the run is single-threaded
Sequential == \A t \in Threads \ {1} : pc[t] = "off"

\* hist with one more completed call, in a single-threaded run
Record(call) ==
  IF Sequential
    THEN IF Len(hist) < HistLen THEN Append(hist, call)
                                ELSE Append(Tail(hist), call)
    ELSE hist

\* the locals of thread t back to their values outside a call
Return(t) ==
  /\ pc' = [pc EXCEPT ![t] = "idle"]
  /\ op' = [op EXCEPT ![t] = "none"]
  /\ alloc_size' = [alloc_size EXCEPT ![t] = 0]
  /\ alloc_ptr' = [alloc_ptr EXCEPT ![t] = NULL]
  /\ l_exp' = [l_exp EXCEPT ![t] = 0]
  /\ l' = [l EXCEPT ![t] = 0]
  /\ old_head' = [old_head EXCEPT ![t] = NULL]
  /\ head_next' = [head_next EXCEPT ![t] = NULL]
  /\ p' = [p EXCEPT ![t] = NULL]
  /\ num_tries' = [num_tries EXCEPT ![t] = 0]
  /\ empties' = [empties EXCEPT ![t] = {}]
  /\ lp_head' = [lp_head EXCEPT ![t] = NULL]
  /\ lp_tail' = [lp_tail EXCEPT ![t] = NULL]
  /\ list' = [list EXCEPT ![t] = 0]

\* allocate returns ptr: the caller holds the chunk
AllocReturn(t, ptr) ==
  /\ held' = held (+) SetToBag({<<ptr, alloc_size[t]>>})
  /\ hist' = Record(<<"allocate", alloc_size[t], ptr>>)
  /\ Return(t)

\* deallocate returns
DeallocReturn(t) ==
  /\ hist' = Record(<<"deallocate", alloc_size[t], lp_head[t]>>)
  /\ Return(t)
  /\ UNCHANGED held

\* the sizes callers ask for: every size up to one more than the largest class
Sizes == 1 .. (MaxChunkSize + 1)

\* cap on the number of chunks callers hold at once: one more than the words
\* of the arena, which a correct pool never reaches
MaxHeld == m_data_size + 1

(* ----------------------------- allocate ------------------------------- *)

\* lines 127-145: entry; the minimal fitting class l_exp; abort when the
\* request exceeds the largest class
AllocBegin(t, size) ==
  /\ err = "none"
  /\ pc[t] = "idle"
  /\ BagCardinality(held) < MaxHeld
  /\ budget > 0
  /\ budget' = budget - 1
  /\ op' = [op EXCEPT ![t] = "allocate"]
  /\ alloc_size' = [alloc_size EXCEPT ![t] = size]
  /\ l_exp' = [l_exp EXCEPT ![t] = AllocClass(size)]
  /\ IF m_chunk_size[AllocClass(size)] = 0
       THEN /\ err' = "REQUESTED_SIZE_TOO_LARGE"
            /\ pc' = [pc EXCEPT ![t] = "abort"]
            /\ UNCHANGED l
       ELSE /\ pc' = [pc EXCEPT ![t] = "scan"]
            /\ l' = [l EXCEPT ![t] = AllocClass(size)]
            /\ UNCHANGED err
  /\ UNCHANGED <<m_chunk_size, m_freelist, m_data, m_data_size, mem, held, hist,
                 alloc_ptr, old_head, head_next, p, num_tries, empties, lp_head,
                 lp_tail, list>>

\* the scan taken up again at the class it had reached
ScanStartHere(e, cur) == cur

\* line 149: l = l_exp, at the top of every iteration of the while loop
ScanStart(e, cur) == e

\* the counter compared after the increment: giving up one scan earlier
GivesUpEarly(tries) == tries + 1 = TryLimit

\* line 201: num_tries == 100000
GivesUp(tries) == tries = TryLimit

\* the scan passing over a list that is locked as over an empty one
ScanSkipsLocked(head) == head = NULL \/ head = LOCK

\* line 150: m_freelist[l] == 0
ScanSkips(head) == head = NULL

\* lines 149-152 and 200-213: one test of the scan loop
\*   for ( ; m_chunk_size[l] > 0 && m_freelist[l] == 0; ++l );
\* and, at the table's end, the attempt counter
AllocScan(t) ==
  /\ err = "none"
  /\ pc[t] = "scan"
  /\ IF m_chunk_size[l[t]] > 0
       THEN /\ IF ScanSkips(m_freelist[l[t]])
                 THEN /\ l' = [l EXCEPT ![t] = l[t] + 1]
                      /\ UNCHANGED pc
                 ELSE /\ pc' = [pc EXCEPT ![t] = "head"]
                      /\ UNCHANGED l
            /\ empties' = [empties EXCEPT ![t] =
                             IF m_freelist[l[t]] = NULL THEN @ \cup {l[t]} ELSE @]
            /\ UNCHANGED <<err, num_tries>>
       ELSE IF GivesUp(num_tries[t])
              THEN /\ err' = "NO_CHUNKS_BIG_ENOUGH"
                   /\ pc' = [pc EXCEPT ![t] = "abort"]
                   /\ UNCHANGED <<l, num_tries, empties>>
              ELSE /\ num_tries' = [num_tries EXCEPT ![t] = num_tries[t] + 1]
                   /\ l' = [l EXCEPT ![t] = ScanStart(l_exp[t], l[t])]
                   /\ empties' = [empties EXCEPT ![t] = {}]
                   /\ UNCHANGED <<err, pc>>
  /\ UNCHANGED <<budget, alloc_ptr>>
  /\ UNCHANGED <<m_chunk_size, m_freelist, m_data, m_data_size, mem, held, hist,
                 op, alloc_size, l_exp, old_head, head_next, p, lp_head, lp_tail,
                 list>>

\* lines 154-157, 193-198: read the head of the candidate list
AllocHead(t) ==
  /\ err = "none"
  /\ pc[t] = "head"
  /\ old_head' = [old_head EXCEPT ![t] = m_freelist[l[t]]]
  /\ IF m_freelist[l[t]] # NULL /\ m_freelist[l[t]] # LOCK
       THEN /\ pc' = [pc EXCEPT ![t] = "lock"]
            /\ UNCHANGED <<l, empties>>
       ELSE /\ pc' = [pc EXCEPT ![t] = "scan"]
            /\ l' = [l EXCEPT ![t] = ScanStart(l_exp[t], l[t])]
            /\ empties' = [empties EXCEPT ![t] = {}]
  /\ UNCHANGED <<budget, alloc_ptr>>
  /\ UNCHANGED <<m_chunk_size, m_freelist, m_data, m_data_size, mem, held, err,
                 hist, op, alloc_size, l_exp, head_next, p, num_tries, lp_head,
                 lp_tail, list>>

\* lines 163-166: atomic_compare_exchange( freelist, old_head, LOCK )
AllocLock(t) ==
  /\ err = "none"
  /\ pc[t] = "lock"
  /\ IF m_freelist[l[t]] = old_head[t]
       THEN /\ m_freelist' = [m_freelist EXCEPT ![l[t]] = LOCK]
            /\ pc' = [pc EXCEPT ![t] = "next"]
            /\ UNCHANGED <<l, empties>>
       ELSE /\ pc' = [pc EXCEPT ![t] = "scan"]
            /\ l' = [l EXCEPT ![t] = ScanStart(l_exp[t], l[t])]
            /\ empties' = [empties EXCEPT ![t] = {}]
            /\ UNCHANGED m_freelist
  /\ UNCHANGED <<budget, alloc_ptr>>
  /\ UNCHANGED <<m_chunk_size, m_data, m_data_size, mem, held, err, hist, op,
                 alloc_size, l_exp, old_head, head_next, p, num_tries, lp_head,
                 lp_tail, list>>

\* lines 169-170: head_next = old_head->m_next.  A link field the pool never
\* wrote holds whatever the arena held: the value read is any of Garbage, and
\* it is what the field holds from then on
AllocNext(t) ==
  /\ err = "none"
  /\ pc[t] = "next"
  /\ \E v \in ReadLink(old_head[t]) :
       /\ head_next' = [head_next EXCEPT ![t] = v]
       /\ mem' = WriteLink(mem, old_head[t], v)
  /\ pc' = [pc EXCEPT ![t] = "unlock"]
  /\ UNCHANGED <<budget, alloc_ptr, empties>>
  /\ UNCHANGED <<m_chunk_size, m_freelist, m_data, m_data_size, held, err, hist,
                 op, alloc_size, l_exp, l, old_head, p, num_tries, lp_head,
                 lp_tail, list>>

\* the unlock that puts the removed chunk back as the head
UnlockValueOld(next, old) == old

\* line 174: the value the unlocking compare-and-swap stores, head_next
UnlockValue(next, old) == next

\* lines 173-186: atomic_compare_exchange( freelist, LOCK, head_next ), and the
\* abort when the head was not LOCK
AllocUnlock(t) ==
  /\ err = "none"
  /\ pc[t] = "unlock"
  /\ IF m_freelist[l[t]] = LOCK
       THEN /\ m_freelist' = [m_freelist EXCEPT ![l[t]] =
                                 UnlockValue(head_next[t], old_head[t])]
            /\ pc' = [pc EXCEPT ![t] = "take"]
            /\ UNCHANGED err
       ELSE /\ err' = "UNLOCK_ERROR"
            /\ pc' = [pc EXCEPT ![t] = "abort"]
            /\ UNCHANGED m_freelist
  /\ UNCHANGED <<budget, alloc_ptr, empties>>
  /\ UNCHANGED <<m_chunk_size, m_data, m_data_size, mem, held, hist, op,
                 alloc_size, l_exp, l, old_head, head_next, p, num_tries, lp_head,
                 lp_tail, list>>

\* the number of sub-chunks counted one short
NumChunksShort(big, small) == m_chunk_size[big] \div m_chunk_size[small] - 1

\* size_t num_chunks = m_chunk_size[l] / m_chunk_size[l_exp];   (line 234)
NumChunks(big, small) == m_chunk_size[big] \div m_chunk_size[small]

\* lines 238-241: link the chunks following the first chunk to form a list
\*   for (size_t i = 2; i < num_chunks; ++i)
\*     chunk(i-1)->m_next = chunk(i)
SplitLinks(m, ptr, sz, n) ==
  LET written == { ptr + (i - 1) * sz : i \in 2 .. (n - 1) }
  IN  [x \in (DOMAIN m) \cup written |-> IF x \in written THEN x + sz ELSE m[x]]

\* lp_head of line 243
SplitHead(ptr, sz, n) == ptr + sz

\* lp_tail of line 244
SplitTail(ptr, sz, n) == ptr + (n - 1) * sz

\* lines 188-190 and 215-262: the removed chunk is the result; when it came
\* from a class above l_exp, chain its remainder for insert_list; otherwise
\* return it.  The link fields written here lie in the removed chunk, which is
\* on no list any more, so the writes are taken as one step
AllocTake(t) ==
  /\ err = "none"
  /\ pc[t] = "take"
  /\ IF l[t] > l_exp[t]
       THEN LET sz == m_chunk_size[l_exp[t]]
                n  == NumChunks(l[t], l_exp[t])
            IN  /\ mem' = SplitLinks(WriteLink(mem, old_head[t], NULL),
                                     old_head[t], sz, n)
                /\ p' = [p EXCEPT ![t] = old_head[t]]
                /\ lp_head' = [lp_head EXCEPT ![t] = SplitHead(old_head[t], sz, n)]
                /\ lp_tail' = [lp_tail EXCEPT ![t] = SplitTail(old_head[t], sz, n)]
                /\ list' = [list EXCEPT ![t] = l_exp[t]]
                /\ pc' = [pc EXCEPT ![t] = "ins_read"]
                /\ UNCHANGED <<held, hist, op, alloc_size, alloc_ptr, l_exp, l,
                               old_head, head_next, num_tries, empties>>
       ELSE /\ mem' = WriteLink(mem, old_head[t], NULL)
            /\ AllocReturn(t, old_head[t])
  /\ UNCHANGED budget
  /\ UNCHANGED <<m_chunk_size, m_freelist, m_data, m_data_size, err>>

(* ---------------------------- insert_list ----------------------------- *)

\* the test of the head left out: insert_list goes on whatever it read
NotLockedAlways(head) == TRUE

\* line 103: old_head != KOKKOS_MEMPOOLLIST_LOCK
NotLocked(head) == head # LOCK

\* lines 100-103: read the head; spin while it is LOCK
InsRead(t) ==
  /\ err = "none"
  /\ pc[t] = "ins_read"
  /\ old_head' = [old_head EXCEPT ![t] = m_freelist[list[t]]]
  /\ pc' = [pc EXCEPT ![t] = IF NotLocked(m_freelist[list[t]]) THEN "ins_link"
                                                               ELSE "ins_read"]
  /\ UNCHANGED <<budget, alloc_ptr, empties>>
  /\ UNCHANGED <<m_chunk_size, m_freelist, m_data, m_data_size, mem, held, err,
                 hist, op, alloc_size, l_exp, l, head_next, p, num_tries, lp_head,
                 lp_tail, list>>

\* lines 108-110: lp_tail->m_next = old_head; memory_fence()
InsLink(t) ==
  /\ err = "none"
  /\ pc[t] = "ins_link"
  /\ mem' = WriteLink(mem, lp_tail[t], old_head[t])
  /\ pc' = [pc EXCEPT ![t] = "ins_cas"]
  /\ UNCHANGED <<budget, alloc_ptr, empties>>
  /\ UNCHANGED <<m_chunk_size, m_freelist, m_data, m_data_size, held, err, hist,
                 op, alloc_size, l_exp, l, old_head, head_next, p, num_tries,
                 lp_head, lp_tail, list>>

\* lines 116-122: atomic_compare_exchange( freelist, old_head, lp_head ); on
\* success insert_list returns, and with it the allocate or deallocate that
\* called it
InsCas(t) ==
  /\ err = "none"
  /\ pc[t] = "ins_cas"
  /\ IF m_freelist[list[t]] = old_head[t]
       THEN /\ m_freelist' = [m_freelist EXCEPT ![list[t]] = lp_head[t]]
            /\ IF op[t] = "allocate" THEN AllocReturn(t, p[t])
                                     ELSE DeallocReturn(t)
       ELSE /\ pc' = [pc EXCEPT ![t] = "ins_read"]
            /\ UNCHANGED <<m_freelist, held, hist, op, alloc_size, alloc_ptr,
                           l_exp, l, old_head, head_next, p, num_tries, empties,
                           lp_head, lp_tail, list>>
  /\ UNCHANGED budget
  /\ UNCHANGED <<m_chunk_size, m_data, m_data_size, mem, err>>

(* ---------------------------- deallocate ------------------------------ *)

\* the range check without the size: only the start of the chunk is tested
OutOfRangeStart(ptr, size) == ptr < m_data

\* line 274: ap < m_data || ap + alloc_size > m_data + m_data_size
OutOfRange(ptr, size) == ptr < m_data \/ ptr + size > m_data + m_data_size

\* lines 267-302 up to the call of insert_list: the range check, the class of
\* the size, the abort when the size exceeds the largest class
Deallocate(t, ptr, size) ==
  /\ op' = [op EXCEPT ![t] = "deallocate"]
  /\ alloc_ptr' = [alloc_ptr EXCEPT ![t] = ptr]
  /\ alloc_size' = [alloc_size EXCEPT ![t] = size]
  /\ IF OutOfRange(ptr, size)
       THEN /\ err' = "ADDRESS_OUT_OF_RANGE"
            /\ pc' = [pc EXCEPT ![t] = "abort"]
            /\ UNCHANGED <<lp_head, lp_tail, list>>
       ELSE IF m_chunk_size[DeallocClass(size)] = 0
              THEN /\ err' = "CHUNK_TOO_LARGE"
                   /\ pc' = [pc EXCEPT ![t] = "abort"]
                   /\ UNCHANGED <<lp_head, lp_tail, list>>
              ELSE /\ lp_head' = [lp_head EXCEPT ![t] = ptr]
                   /\ lp_tail' = [lp_tail EXCEPT ![t] = ptr]
                   /\ list' = [list EXCEPT ![t] = DeallocClass(size)]
                   /\ pc' = [pc EXCEPT ![t] = "ins_read"]
                   /\ UNCHANGED err
  /\ UNCHANGED <<m_chunk_size, m_freelist, m_data, m_data_size, mem, hist, l_exp,
                 l, old_head, head_next, p, num_tries, empties>>

\* a caller gives back a chunk it holds, with the size it asked for
DeallocBegin(t) ==
  /\ err = "none"
  /\ pc[t] = "idle"
  /\ budget > 0
  /\ budget' = budget - 1
  /\ \E c \in BagToSet(held) :
       /\ held' = held (-) SetToBag({c})
       /\ Deallocate(t, c[1], c[2])

\* the addresses a caller may pass: the arena and one word on either side
Addresses == (m_data - 1) .. (m_data + m_data_size)

\* a caller passes deallocate a size above the largest class, at any address
DeallocOversize(t) ==
  /\ err = "none"
  /\ pc[t] = "idle"
  /\ budget > 0
  /\ budget' = budget - 1
  /\ UNCHANGED held
  /\ \E ptr \in Addresses, size \in (MaxChunkSize + 1) .. (MaxChunkSize + 2) :
       Deallocate(t, ptr, size)

(* --------------------------- specifications --------------------------- *)

Next ==
  \E t \in Threads :
    \/ \E size \in Sizes : AllocBegin(t, size)
    \/ AllocScan(t)
    \/ AllocHead(t)
    \/ AllocLock(t)
    \/ AllocNext(t)
    \/ AllocUnlock(t)
    \/ AllocTake(t)
    \/ InsRead(t)
    \/ InsLink(t)
    \/ InsCas(t)
    \/ DeallocBegin(t)

\* any number of threads calling allocate and deallocate
Spec == Init /\ [][Next]_vars

\* one thread calling allocate and deallocate
SeqSpec == SeqInit /\ [][Next]_vars

\* the steps thread t takes inside a call
Run(t) ==
  \/ AllocScan(t)
  \/ AllocHead(t)
  \/ AllocLock(t)
  \/ AllocNext(t)
  \/ AllocUnlock(t)
  \/ AllocTake(t)
  \/ InsRead(t)
  \/ InsLink(t)
  \/ InsCas(t)

\* one thread, which keeps running while it is inside a call
SeqFairSpec == SeqSpec /\ \A t \in Threads : WF_vars(Run(t))

\* the calls of the scenario: allocate(64) only
ScenarioNext ==
  \E t \in Threads :
    \/ AllocBegin(t, ScenarioSizes[1])
    \/ Run(t)

\* one thread calling allocate(64) on the pool of the scenario
ScenarioSpec == ScenarioInit /\ [][ScenarioNext]_vars

\* any number of threads, on the tables whose every class is at least twice
\* the class below it
GeoSpec == GeoInit /\ [][Next]_vars

\* GeoSpec, each thread running on while it is inside a call
GeoFairSpec == GeoSpec /\ \A t \in Threads : WF_vars(Run(t))

\* the calls of a caller that may also pass deallocate an oversized chunk
MisuseNext ==
  \/ Next
  \/ \E t \in Threads : DeallocOversize(t)

\* one thread calling allocate and deallocate, deallocate also with sizes
\* above the largest class
MisuseSpec == SeqInit /\ [][MisuseNext]_vars

\* the single-threaded runs and the runs of several threads
AnySpec == AnyInit /\ [][Next]_vars

\* any number of threads, each of which keeps running while it is inside a call
FairSpec == Spec /\ \A t \in Threads : WF_vars(Run(t))

(* ------------------- what the free lists and callers own -------------- *)

\* the words of a chunk of len words at address a
Words(a, len) == a .. (a + len - 1)

\* the words of the arena
Arena == Words(m_data, m_data_size)

RECURSIVE Walk(_, _)
\* the addresses met following the link fields from a, at most fuel of them
Walk(a, fuel) ==
  IF a = NULL \/ a = LOCK \/ fuel = 0 THEN << >>
  ELSE IF a \notin DOMAIN mem THEN <<a>>
  ELSE <<a>> \o Walk(mem[a], fuel - 1)

RECURSIVE EndsInNull(_, _)
\* following the link fields from a reaches NULL within fuel chunks, through
\* written link fields only
EndsInNull(a, fuel) ==
  IF a = NULL THEN TRUE
  ELSE IF a = LOCK \/ fuel = 0 \/ a \notin DOMAIN mem THEN FALSE
  ELSE EndsInNull(mem[a], fuel - 1)

\* more chunks than any chain without a cycle can hold
Fuel == Cardinality(DOMAIN mem) + 1

\* the chunks reachable from the head of free list i, in order
Chain(i) == Walk(m_freelist[i], Fuel)

\* the classes of the table
Lists == 0 .. (NumLists - 1)

\* the head of list i is Available: neither Empty nor Locked
Available(i) == m_freelist[i] # NULL /\ m_freelist[i] # LOCK

\* the <<address, class>> of every chunk reachable from a free-list head
OnLists == UNION { { <<Chain(i)[j], i>> : j \in 1 .. Len(Chain(i)) } : i \in Lists }

\* the words of a chunk a caller holds: from its address, the length of the
\* class its requested size is rounded up to
HeldWords(c) == Words(c[1], ClassSizeFor(c[2]))

\* the chain of list i as the operations see it: while the head is LOCK the
\* chain is the one behind the chunk the lock holder is removing
ListHead(i) ==
  IF m_freelist[i] # LOCK THEN m_freelist[i]
  ELSE IF \E t \in Threads : pc[t] \in {"next", "unlock"} /\ l[t] = i
         THEN old_head[CHOOSE t \in Threads : pc[t] \in {"next", "unlock"} /\ l[t] = i]
         ELSE NULL

\* the chunks on the free lists, each <<"free", class, position, address, length>>
FreeOwned ==
  UNION { { <<"free", i, j, Walk(ListHead(i), Fuel)[j], m_chunk_size[i]>> :
              j \in 1 .. Len(Walk(ListHead(i), Fuel)) } : i \in Lists }

\* the chunks callers hold, each <<"held", size, copy, address, length>>
HeldOwned ==
  UNION { { <<"held", c[2], k, c[1], ClassSizeFor(c[2])>> : k \in 1 .. CopiesIn(c, held) } :
          c \in BagToSet(held) }

\* the chunks thread t has removed from a list and not yet returned or pushed,
\* each <<"op", t, position, address, length>>
OpOwned(t) ==
  IF pc[t] = "take"
    THEN { <<"op", t, 0, old_head[t], m_chunk_size[l[t]]>> }
  ELSE IF pc[t] \in {"ins_read", "ins_link", "ins_cas"} /\ op[t] = "allocate"
    THEN { <<"op", t, i, p[t] + i * m_chunk_size[l_exp[t]], m_chunk_size[l_exp[t]]>> :
             i \in 0 .. (NumChunks(l[t], l_exp[t]) - 1) }
  ELSE IF pc[t] \in {"ins_read", "ins_link", "ins_cas"} /\ op[t] = "deallocate"
    THEN { <<"op", t, 0, lp_head[t], m_chunk_size[list[t]]>> }
  ELSE {}

\* every chunk with its owner
Owned == FreeOwned \cup HeldOwned \cup UNION { OpOwned(t) : t \in Threads }

\* every class size divides the next one: splitting leaves no remainder
Divisible ==
  \A i \in Lists : i + 1 \in Lists => m_chunk_size[i + 1] % m_chunk_size[i] = 0

(* ------------------------------ claims -------------------------------- *)

\* C1: no two chunks held by callers at the same time overlap: the ranges
\* [a, a + classSizeFor(s)) of the held chunks are pairwise disjoint, and no
\* chunk is held twice.
C1_NoOverlap ==
  \A c \in BagToSet(held) :
    /\ CopiesIn(c, held) = 1
    /\ \A d \in BagToSet(held) : c # d => HeldWords(c) \cap HeldWords(d) = {}

\* C2: a chunk address appears at most once across all free lists, and no
\* chunk a caller holds is reachable from a free-list head.
C2_OnOneList ==
  /\ \A i \in Lists : \A j, k \in 1 .. Len(Chain(i)) :
       j # k => Chain(i)[j] # Chain(i)[k]
  /\ \A x, y \in OnLists : x[1] = y[1] => x[2] = y[2]
  /\ \A c \in BagToSet(held) : \A x \in OnLists : x[1] # c[1]

\* C3: when a list's head is Available, following the link fields from it
\* reaches null after finitely many steps without meeting a chunk twice, and
\* every chunk on the chain is a chunk of the list's class: as long as that
\* class, inside the arena, and apart from the other chunks of the chain.
C3_ChainWellFormed ==
  \A i \in Lists :
    Available(i) =>
      /\ EndsInNull(m_freelist[i], Fuel)
      /\ \A j \in 1 .. Len(Chain(i)) :
           /\ Words(Chain(i)[j], m_chunk_size[i]) \subseteq Arena
           /\ \A k \in 1 .. Len(Chain(i)) :
                j # k => Words(Chain(i)[j], m_chunk_size[i])
                           \cap Words(Chain(i)[k], m_chunk_size[i]) = {}

\* C4: every chunk is either on a free list or owned by a caller, never both:
\* the chunks on the lists, the chunks callers hold and the chunks an operation
\* is moving lie in the arena and are pairwise disjoint, and where the class
\* sizes divide each other they cover the arena, so no word is in neither.
C4_OneOwner ==
  /\ \A x \in Owned : Words(x[4], x[5]) \subseteq Arena
  /\ \A x, y \in Owned : x # y => Words(x[4], x[5]) \cap Words(y[4], y[5]) = {}
  /\ Divisible => Arena = UNION { Words(x[4], x[5]) : x \in Owned }

\* C5: a chunk returned for a request of size s lies inside the arena with
\* a + classSizeFor(s) <= arena end, and classSizeFor(s) >= s.
C5_InArena ==
  \A c \in BagToSet(held) :
    /\ m_data <= c[1]
    /\ c[1] + ClassSizeFor(c[2]) <= m_data + m_data_size
    /\ c[2] <= ClassSizeFor(c[2])

\* C6: when allocate has removed a chunk of a class c above the minimal
\* fitting class e, the push that ends the call adds to free list e exactly the
\* sub-chunks 1 .. n-1 of the removed chunk, n = size(c) / size(e), in front of
\* what the list held, and returns sub-chunk 0; with n = 1 the list is as before.
C6_SplitInserts ==
  [][ \A t \in Threads : \A e \in Lists :
        ( /\ pc[t] = "ins_cas"
          /\ op[t] = "allocate"
          /\ l_exp[t] = e
          /\ pc'[t] = "idle" )
        => /\ l[t] > e
           /\ Chain(e)' =
                [i \in 1 .. (NumChunks(l[t], e) - 1) |-> p[t] + i * m_chunk_size[e]]
                  \o Chain(e)
           /\ held' = held (+) SetToBag({<<p[t], alloc_size[t]>>})
    ]_vars

\* the last call completed in a single-threaded run
LastCall == hist[Len(hist)]

PoolChunks == m_data_size \div MaxChunkSize

\* C8: with a single size class and a pool of k chunks, callers never hold
\* more than k chunks nor one chunk twice, and an allocate call made when all k
\* are held ends with the abort NO_CHUNKS_BIG_ENOUGH.
C8_Exhaustion ==
  /\ [](NumLists = 1 =>
          /\ BagCardinality(held) <= PoolChunks
          /\ \A c, d \in BagToSet(held) : c[1] = d[1] => c = d
          /\ \A c \in BagToSet(held) : CopiesIn(c, held) = 1)
  /\ ( ( /\ NumLists = 1
         /\ BagCardinality(held) = PoolChunks
         /\ pc[1] = "scan" )
       ~> err = "NO_CHUNKS_BIG_ENOUGH" )

\* the single-class pool is exhausted: every chunk is held and the next
\* allocate has aborted
C8_Witness ==
  /\ NumLists = 1
  /\ PoolChunks > 1
  /\ BagCardinality(held) = PoolChunks
  /\ err = "NO_CHUNKS_BIG_ENOUGH"

\* C9: allocate of exactly the largest class size, called while a chunk of
\* that class is free, returns; allocate of one more aborts with
\* REQUESTED_SIZE_TOO_LARGE in its first step, no free list read or changed
\* and no attempt counted; and no smaller request aborts that way.
C9_SizeBoundary ==
  /\ ( ( /\ pc[1] = "scan"
         /\ alloc_size[1] = MaxChunkSize
         /\ Available(NumLists - 1) )
       ~> (pc[1] = "idle" /\ err = "none") )
  /\ [][ \A t \in Threads :
           (pc[t] = "idle" /\ op'[t] = "allocate")
           => IF alloc_size'[t] > MaxChunkSize
                THEN /\ err' = "REQUESTED_SIZE_TOO_LARGE"
                     /\ pc'[t] = "abort"
                     /\ num_tries'[t] = 0
                     /\ UNCHANGED <<m_freelist, mem, held>>
                ELSE /\ err' = "none"
                     /\ pc'[t] = "scan"
     ]_vars

\* a request of the largest class size has returned a chunk and a request one
\* larger has aborted
C9_Witness ==
  /\ err = "REQUESTED_SIZE_TOO_LARGE"
  /\ alloc_size[1] = MaxChunkSize + 1
  /\ Len(hist) > 0
  /\ LastCall[1] = "allocate"
  /\ LastCall[2] = MaxChunkSize

\* C10: classes {64, 256, 1024}, four 1024-byte chunks.  The first
\* allocate(64) returns the first chunk's address and leaves three chunks on
\* the 1024 list, none on the 256 list and the fifteen other 64-byte pieces of
\* the first chunk on the 64 list; each of the next fifteen allocate(64) calls
\* takes from the 64 list, the heads of the 256 and 1024 lists staying as they
\* are.
C10_Scenario ==
  LET n == BagCardinality(held)
  IN  /\ (n = 1 /\ pc[1] = "idle") =>
            /\ held = SetToBag({<<m_data, 64>>})
            /\ Chain(0) = [i \in 1 .. 15 |-> m_data + 64 * i]
      /\ (n \in 1 .. 16 /\ (n = 16 => pc[1] = "idle")) =>
            /\ err = "none"
            /\ m_freelist[1] = NULL
            /\ Chain(2) = [i \in 1 .. 3 |-> m_data + 1024 * i]
            /\ l[1] = 0
            /\ pc[1] = "idle" => Len(Chain(0)) = 16 - n
            /\ \A c \in BagToSet(held) :
                 /\ c[1] \in { m_data + 64 * i : i \in 0 .. 15 }
                 /\ CopiesIn(c, held) = 1

\* sixteen allocate(64) calls have returned and the 64 list is empty again
C10_Witness ==
  /\ BagCardinality(held) = 16
  /\ pc[1] = "idle"
  /\ m_freelist[0] = NULL
  /\ m_freelist[2] = m_data + 1024
  /\ err = "none"

\* C11 (as stated): deallocate with a size above the largest class aborts
\* with CHUNK_TOO_LARGE (InvalidSize) whatever the address, and pushes nothing
\* onto any free list.
C11_InvalidSize ==
  [][ \A t \in Threads :
        ( /\ pc[t] = "idle"
          /\ op'[t] = "deallocate"
          /\ alloc_size'[t] > MaxChunkSize )
        => /\ err' = "CHUNK_TOO_LARGE"
           /\ pc'[t] = "abort"
           /\ UNCHANGED <<m_freelist, mem>>
    ]_vars

\* C11 (amended): deallocate with a size above the largest class aborts with
\* CHUNK_TOO_LARGE when the chunk [ptr, ptr + size) lies inside the arena and
\* with ADDRESS_OUT_OF_RANGE when it does not, the range being tested first;
\* either way it pushes nothing onto any free list.
C11_InvalidSizeInRange ==
  [][ \A t \in Threads :
        ( /\ pc[t] = "idle"
          /\ op'[t] = "deallocate"
          /\ alloc_size'[t] > MaxChunkSize )
        => /\ err' = IF /\ m_data <= alloc_ptr'[t]
                        /\ alloc_ptr'[t] + alloc_size'[t] <= m_data + m_data_size
                       THEN "CHUNK_TOO_LARGE"
                       ELSE "ADDRESS_OUT_OF_RANGE"
           /\ pc'[t] = "abort"
           /\ UNCHANGED <<m_freelist, mem>>
    ]_vars

\* after a call that returned, deallocate of an oversized chunk inside the
\* arena has aborted with CHUNK_TOO_LARGE
C11_Witness ==
  /\ err = "CHUNK_TOO_LARGE"
  /\ op[1] = "deallocate"
  /\ alloc_size[1] > MaxChunkSize
  /\ alloc_ptr[1] > m_data
  /\ Len(hist) > 0

\* the minimal class whose size is at least s; the number of classes when
\* there is none
MinClass(s) ==
  CHOOSE i \in 0 .. NumLists :
    /\ i < NumLists => m_chunk_size[i] >= s
    /\ \A j \in 0 .. (i - 1) : m_chunk_size[j] < s

\* thread t takes a step of insert_list called by deallocate
DeallocStep(t) ==
  /\ op[t] = "deallocate"
  /\ pc[t] \in {"ins_read", "ins_link", "ins_cas"}
  /\ (pc'[t] # pc[t] \/ old_head'[t] # old_head[t])

\* C12: a deallocate(p, s) that returns pushes the single chunk p onto the
\* free list of the minimal class whose size is at least s, the class
\* allocate(s) starts from; no step of the call changes the head or the
\* content of another list, nor the content of its own list before the push.
C12_DeallocPush ==
  [][ \A t \in Threads :
        /\ (pc[t] = "idle" /\ op'[t] = "allocate" /\ pc'[t] = "scan")
             => l_exp'[t] = MinClass(alloc_size'[t])
        /\ DeallocStep(t) =>
             IF pc[t] = "ins_cas" /\ pc'[t] = "idle"
               THEN /\ list[t] = MinClass(alloc_size[t])
                    /\ lp_head[t] = alloc_ptr[t]
                    /\ \A i \in Lists :
                         IF i = list[t]
                           THEN Chain(i)' = <<alloc_ptr[t]>> \o Chain(i)
                           ELSE /\ m_freelist'[i] = m_freelist[i]
                                /\ Chain(i)' = Chain(i)
               ELSE \A i \in Lists :
                      m_freelist'[i] = m_freelist[i] /\ Chain(i)' = Chain(i)
    ]_vars

\* the threads between the lock and the unlock compare-and-swap on list i
Holders(i) == { t \in Threads : pc[t] \in {"next", "unlock"} /\ l[t] = i }

\* C13: insert_list never issues its compare-and-swap expecting LOCK, and
\* allocate never tries to lock a head it read as LOCK or null; at most one
\* thread is between locking and unlocking a list, whose head is LOCK
\* meanwhile; a head that is LOCK is changed only by the unlock of its holder;
\* and no run ends in UNLOCK_ERROR.
C13_LockExclusive ==
  /\ [](/\ \A t \in Threads :
            /\ pc[t] = "ins_cas" => old_head[t] # LOCK
            /\ pc[t] = "lock" => (old_head[t] # LOCK /\ old_head[t] # NULL)
         /\ \A i \in Lists :
              /\ Cardinality(Holders(i)) <= 1
              /\ Holders(i) # {} => m_freelist[i] = LOCK
         /\ err # "UNLOCK_ERROR")
  /\ [][ \A i \in Lists :
           (m_freelist[i] = LOCK /\ m_freelist'[i] # LOCK)
           => \E t \in Holders(i) : pc[t] = "unlock" /\ pc'[t] = "take"
     ]_vars

\* one thread has unlocked a list while another, having read the head as
\* LOCK, was spinning in insert_list on the same list
C13_Witness ==
  \E t, u \in Threads :
    /\ t # u
    /\ pc[t] = "take"
    /\ pc[u] = "ins_read"
    /\ list[u] = l[t]
    /\ old_head[u] = LOCK
    /\ m_freelist[l[t]] # LOCK

RECURSIVE WalkTo(_, _, _)
\* the addresses met following the link fields from a up to and including b,
\* at most fuel of them
WalkTo(a, b, fuel) ==
  IF a = NULL \/ a = LOCK \/ fuel = 0 THEN << >>
  ELSE IF a = b \/ a \notin DOMAIN mem THEN <<a>>
  ELSE <<a>> \o WalkTo(mem[a], b, fuel - 1)

\* the chain lp_head .. lp_tail thread t's insert_list was given
InsChain(t) == WalkTo(lp_head[t], lp_tail[t], Fuel)

\* thread t is inside insert_list
Inserting(t) == pc[t] \in {"ins_read", "ins_link", "ins_cas"}

\* C14: the chain lp_head .. lp_tail given to insert_list is on no list until
\* the successful compare-and-swap, and at that step the content of the list
\* changes from L, what it holds at that instant, to the whole chain followed
\* by L, the other heads staying as they are.
C14_PublishWhole ==
  /\ [](\A t \in Threads :
          Inserting(t) =>
            /\ InsChain(t)[Len(InsChain(t))] = lp_tail[t]
            /\ \A j \in 1 .. Len(InsChain(t)) :
                 \A x \in OnLists : x[1] # InsChain(t)[j])
  /\ [][ \A t \in Threads : \A i \in Lists :
           (pc[t] = "ins_cas" /\ list[t] = i /\ pc'[t] = "idle")
           => /\ Chain(i)' = InsChain(t) \o Chain(i)
              /\ \A k \in Lists \ {i} : m_freelist'[k] = m_freelist[k]
     ]_vars

\* C15: a head that is LOCK becomes non-LOCK again while the process runs,
\* and its holder, between the lock and the unlock compare-and-swap, only
\* reads the link field of the removed chunk: each of its two steps can be
\* taken whatever the other threads and lists do, the first changes no head,
\* the second is the unlock.
C15_BoundedLock ==
  /\ \A i \in 0 .. (MaxClasses - 1) :
       (i \in Lists /\ m_freelist[i] = LOCK)
         ~> ((i \in Lists /\ m_freelist[i] # LOCK) \/ err # "none")
  /\ [](\A t \in Threads :
          (pc[t] \in {"next", "unlock"} /\ err = "none") => ENABLED Run(t))
  /\ [][ \A t \in Threads :
           /\ (pc[t] = "next" /\ pc'[t] # "next")
                => /\ pc'[t] = "unlock"
                   /\ head_next'[t] \in ReadLink(old_head[t])
                   /\ UNCHANGED m_freelist
           /\ (pc[t] = "unlock" /\ pc'[t] # "unlock")
                => /\ pc'[t] = "take"
                   /\ m_freelist[l[t]] = LOCK
                   /\ m_freelist'[l[t]] = head_next[t]
     ]_vars

\* C16: every call returns or the process aborts: a thread inside allocate,
\* deallocate or the insert_list they call is eventually outside it again, or
\* an abort has ended the run.
C16_Termination ==
  \A t \in Threads :
    (pc[t] \notin {"idle", "off"}) ~> (pc[t] = "idle" \/ err # "none")

\* C17: allocate counts an attempt only at the end of a scan that read every
\* list of class l_exp and above as empty, and not when it goes back to the
\* scan after finding the candidate list locked or emptied or after losing
\* the lock compare-and-swap; it aborts with NO_CHUNKS_BIG_ENOUGH only at the
\* end of such a scan, the count having reached the threshold.
C17_CountsEmptyScans ==
  [][ \A t \in Threads :
        /\ (op'[t] = "allocate" /\ num_tries'[t] # num_tries[t])
             => /\ pc[t] = "scan"
                /\ num_tries'[t] = num_tries[t] + 1
                /\ empties[t] = l_exp[t] .. (NumLists - 1)
        /\ (pc[t] = "scan" /\ err' = "NO_CHUNKS_BIG_ENOUGH" /\ pc'[t] = "abort")
             => /\ num_tries[t] = TryLimit
                /\ empties[t] = l_exp[t] .. (NumLists - 1)
        /\ (pc[t] \in {"head", "lock"} /\ pc'[t] = "scan")
             => num_tries'[t] = num_tries[t]
    ]_vars

\* an allocate that found its candidate list locked by another thread, and
\* went back to the scan for it, has later aborted with NO_CHUNKS_BIG_ENOUGH
C17_Witness ==
  \E t \in Threads :
    /\ pc[t] = "abort"
    /\ err = "NO_CHUNKS_BIG_ENOUGH"
    /\ old_head[t] = LOCK
    /\ num_tries[t] = TryLimit

\* thread t's scan has reached the table's end and t takes its step there
EndOfScan(t) ==
  /\ pc[t] = "scan"
  /\ l[t] = NumLists
  /\ (pc'[t] # pc[t] \/ l'[t] # l[t] \/ num_tries'[t] # num_tries[t])

\* C18 (as stated): allocate aborts with NO_CHUNKS_BIG_ENOUGH on the
\* TryLimit-th scan of the call that reaches the table's end: TryLimit - 1 such
\* scans went before the one that aborts.
C18_FailsOnTth ==
  [][ \A t \in Threads :
        (EndOfScan(t) /\ err' = "NO_CHUNKS_BIG_ENOUGH")
        => num_tries[t] + 1 = TryLimit
    ]_vars

\* C18 (amended): the attempt counter is 0 when the call starts; a scan that
\* reaches the table's end first compares the counter with TryLimit, aborts
\* with NO_CHUNKS_BIG_ENOUGH when they are equal, and otherwise adds one and
\* goes back to the scan: the first TryLimit such scans loop back and the
\* abort comes on scan TryLimit + 1.
C18_FailsAfterT ==
  [][ \A t \in Threads :
        /\ (pc[t] = "idle" /\ pc'[t] = "scan") => num_tries'[t] = 0
        /\ EndOfScan(t) =>
             IF num_tries[t] < TryLimit
               THEN /\ num_tries'[t] = num_tries[t] + 1
                    /\ pc'[t] = "scan"
                    /\ l'[t] = l_exp[t]
                    /\ err' = "none"
               ELSE /\ num_tries[t] = TryLimit
                    /\ err' = "NO_CHUNKS_BIG_ENOUGH"
                    /\ pc'[t] = "abort"
        /\ (pc[t] = "scan" /\ l[t] < NumLists /\ op'[t] = "allocate")
             => num_tries'[t] = num_tries[t]
    ]_vars

\* a request for the smaller class of a two-class table has aborted at the
\* end of a scan of both lists, TryLimit scans having looped back before
C18_Witness ==
  /\ NumLists = 2
  /\ err = "NO_CHUNKS_BIG_ENOUGH"
  /\ pc[1] = "abort"
  /\ l_exp[1] = 0
  /\ l[1] = NumLists
  /\ num_tries[1] = TryLimit

\* C19: when allocate's lock compare-and-swap succeeds on list l, the scan
\* before it read every list from l_exp to l - 1 as empty and stopped at l as
\* the first it did not; so a chunk of a class above l_exp is taken, and
\* split, only after list l_exp was read as empty in that scan, and in a
\* single-threaded run only while the lists from l_exp to l - 1 are empty.
C19_ClassSelection ==
  [][ \A t \in Threads :
        /\ (pc[t] = "lock" /\ pc'[t] = "next")
             => /\ l[t] \in Lists
                /\ l[t] >= l_exp[t]
                /\ m_freelist[l[t]] = old_head[t]
                /\ empties[t] = l_exp[t] .. (l[t] - 1)
                /\ Sequential =>
                     \A i \in l_exp[t] .. (l[t] - 1) : m_freelist[i] = NULL
        /\ (pc[t] = "take" /\ pc'[t] = "ins_read")
             => /\ l[t] > l_exp[t]
                /\ l_exp[t] \in empties[t]
                /\ p'[t] = old_head[t]
                /\ Sequential => m_freelist[l_exp[t]] = NULL
    ]_vars

\* a thread has locked a list of a class above l_exp, after a scan that read
\* list l_exp as empty, while list l_exp holds a chunk another thread pushed
\* since
C19_Witness ==
  \E t \in Threads :
    /\ pc[t] = "next"
    /\ l[t] > l_exp[t]
    /\ Available(l_exp[t])

\* the chunks of the largest class, on the lists, held or being moved
LargestOwned == { x \in Owned : x[5] = MaxChunkSize }

=============================================================================
